---- MODULE Spec2Model ----
(***************************************************************************)
(* A model of tarmac's `sync` command (src/commands/sync.rs): one run is   *)
(* SyncSession::new, discover_configs, discover_inputs, the choice of the  *)
(* upload strategy, SyncSession::sync (one step per input), write_manifest *)
(* and codegen.  Runs follow one another on the same filesystem, each      *)
(* loading the manifest the run before it wrote.                           *)
(*                                                                         *)
(* Paths are sequences of segments, a segment being a stem and an          *)
(* extension; asset names are paths relative to a config's folder.         *)
(* Rust's 0-based indices are kept: configs[c] of the code is              *)
(* configs[c + 1] here.                                                    *)
(***************************************************************************)
EXTENDS Integers, Sequences, FiniteSets, TLC

VARIABLES
    run,               \* number of the current run
    pc,                \* position of the run in sync() (sync.rs:25-59)
    error,             \* the Err the run returned, kind "none" while it has not
    world,             \* which config forest is on disk
    target,            \* options.target: "Roblox" or "ContentFolder"
    auth,              \* whether an authentication cookie is available
    files,             \* file path -> contents, 0 when the file does not exist
    disk_manifest,     \* the manifest file in the root config's folder
    generated,         \* generated file path -> text this run's codegen wrote
    configs,           \* SyncSession::configs
    original_manifest, \* SyncSession::original_manifest (its inputs map)
    inputs,            \* SyncSession::inputs
    to_search,         \* discover_configs: the VecDeque of pending search paths
    cursor,            \* discover_inputs: (config_index, input_config_index)
    walk,              \* discover_inputs: matches of the current glob not yet visited
    groups,            \* sync: compatibility groups not yet visited
    group,             \* sync: names of the current group not yet visited
    next_id,           \* the identifier the remote store hands out next
    upload_calls,      \* history: name -> number of strategy.upload calls this run
    upload_ids,        \* history: name -> identifier the upload returned, 0 if none
    decision,          \* history: name -> "none" | "reuse" | "upload" | "skip"
    writes,            \* history: number of manifest writes this run
    stages,            \* history: the stages this run has completed, in order
    start_manifest,    \* history: the manifest file as it was at session start
    prev,              \* history: what the previous run left behind
    output_path,       \* perform_codegen: the Option<&Path> it is called with
    cg_inputs,         \* perform_codegen: the slice of inputs it is called with
    cg_pc,             \* position in perform_codegen (codegen.rs:21-189)
    cg_pos,            \* number of inputs the `for input in inputs` loop has visited
    root_folder,       \* codegen_grouped: the tree of Items
    cg_files,          \* generated file path -> what perform_codegen wrote there
    cg_log,            \* history: the inputs log::error! was called for
    cg_written         \* history: the File::create calls, as (input index, path)

\* the state of the sync command
syncvars == <<run, pc, error, world, target, auth, files, disk_manifest, generated,
              configs, original_manifest, inputs, to_search, cursor, walk, groups,
              group, next_id, upload_calls, upload_ids, decision, writes, stages,
              start_manifest, prev>>

\* the state of perform_codegen
cgvars == <<output_path, cg_inputs, cg_pc, cg_pos, root_folder, cg_files, cg_log,
            cg_written>>

vars == <<syncvars, cgvars>>

(***************************************************************************)
(* Bounds of the model.                                                    *)
(***************************************************************************)
MaxContent == 2
MaxPrevId == 1
MaxRuns == 2
\* discover_configs is followed until the session holds this many configs
MaxConfigs == 4

(***************************************************************************)
(* Option<T>.                                                              *)
(***************************************************************************)
None == [some |-> FALSE]
Some(v) == [some |-> TRUE, val |-> v]

(***************************************************************************)
(* Paths.                                                                  *)
(***************************************************************************)
Seg(s, e) == [stem |-> s, ext |-> e]

IsPrefix(p, q) == Len(p) <= Len(q) /\ SubSeq(q, 1, Len(p)) = p

StripPrefix(p, q) == SubSeq(q, Len(p) + 1, Len(q))

Extension(path) == IF path = <<>> THEN "" ELSE path[Len(path)].ext

WithExtension(path, e) ==
    [path EXCEPT ![Len(path)] = Seg(path[Len(path)].stem, e)]

RootDir == <<Seg("r", "")>>
SubDir == RootDir \o <<Seg("sub", "")>>
LibDir == RootDir \o <<Seg("lib", "")>>
InnerDir == LibDir \o <<Seg("in", "")>>
MissingDir == RootDir \o <<Seg("gone", "")>>
Dirs == {RootDir, SubDir, LibDir, InnerDir}

ConfigFileName == Seg("tarmac", "toml")
ConfigFile(dir) == dir \o <<ConfigFileName>>

FileA == RootDir \o <<Seg("a", "png")>>
FileSubA == SubDir \o <<Seg("a", "png")>>
FileB == RootDir \o <<Seg("b", "txt")>>
FileC == RootDir \o <<Seg("c", "jpg")>>
FilePaths == {FileA, FileSubA, FileB, FileC}

\* AssetName::from_paths: the file's path relative to the config's folder.
AssetNameFromPaths(config_path, path) == StripPrefix(config_path, path)

NameUniverse ==
    {AssetNameFromPaths(d, f) : <<d, f>> \in {x \in Dirs \X FilePaths : IsPrefix(x[1], x[2])}}

(***************************************************************************)
(* Configs on disk.                                                        *)
(***************************************************************************)
Glob(prefix, recursive, e) == [prefix |-> prefix, recursive |-> recursive, ext |-> e]

InputConfig(glob, packable, codegen) ==
    [glob |-> glob, packable |-> packable, codegen |-> codegen]

IcPng == InputConfig(Glob(<<>>, FALSE, "png"), FALSE, "AssetUrl")
IcPngRec == InputConfig(Glob(<<>>, TRUE, "png"), FALSE, "AssetUrl")
IcPngPlain == InputConfig(Glob(<<>>, FALSE, "png"), FALSE, "None")
IcJpg == InputConfig(Glob(<<>>, FALSE, "jpg"), FALSE, "AssetUrl")
IcTxt == InputConfig(Glob(<<>>, FALSE, "txt"), FALSE, "None")
IcSubPack == InputConfig(Glob(<<Seg("sub", "")>>, FALSE, "png"), TRUE, "UrlAndSlice")
IcJpgSlice == InputConfig(Glob(<<>>, FALSE, "jpg"), FALSE, "UrlAndSlice")

NoConfig == [present |-> FALSE]
Config(folder, includes, ics) ==
    [present |-> TRUE, folder |-> folder, includes |-> includes, inputs |-> ics]

Only(root) == [d \in Dirs |-> IF d = RootDir THEN root ELSE NoConfig]

Worlds ==
    << \* 1: a recursive glob and a flat one, three image inputs
       Only(Config(RootDir, <<>>, <<IcPngRec, IcJpg>>)),
       \* 2: an image, a file that is no image, a packable image
       Only(Config(RootDir, <<>>, <<IcPng, IcTxt, IcSubPack>>)),
       \* 3: an included folder whose config derives the root's asset name
       [Only(Config(RootDir, <<SubDir>>, <<IcPng>>))
            EXCEPT ![SubDir] = Config(SubDir, <<>>, <<IcPngPlain>>)],
       \* 4: two globs of one config matching the same file
       Only(Config(RootDir, <<>>, <<IcPng, IcPngRec>>)),
       \* 5: includes of a config file and of a folder that has to be searched
       [Only(Config(RootDir, <<LibDir, ConfigFile(SubDir)>>, <<IcPngRec>>))
            EXCEPT ![SubDir] = Config(SubDir, <<>>, <<IcTxt>>),
                   ![InnerDir] = Config(InnerDir, <<>>, <<>>)],
       \* 6: an include that does not exist
       Only(Config(RootDir, <<MissingDir>>, <<IcPng>>)),
       \* 7: an include that is a file and no config
       Only(Config(RootDir, <<FileB>>, <<IcPng>>)),
       \* 8: includes that lead back to a config, through a folder that has
       \* to be searched and through a config file
       [Only(Config(RootDir, <<SubDir>>, <<IcPng>>))
            EXCEPT ![SubDir] = Config(SubDir, <<LibDir>>, <<>>),
                   ![InnerDir] = Config(InnerDir, <<ConfigFile(SubDir)>>, <<>>)],
       \* 9: a config that includes its own folder and a path that does not exist
       [Only(Config(RootDir, <<SubDir>>, <<IcPng>>))
            EXCEPT ![SubDir] = Config(SubDir, <<SubDir, MissingDir>>, <<>>)],
       \* 10: a recursive glob over a folder that cannot be listed
       Only(Config(RootDir, <<>>, <<IcPngRec>>)),
       \* 11: an image whose codegen kind is url-and-slice
       Only(Config(RootDir, <<>>, <<IcJpgSlice>>)),
       \* 12: a config included twice, as a folder and as a config file
       [Only(Config(RootDir, <<SubDir, ConfigFile(SubDir)>>, <<IcJpg>>))
            EXCEPT ![SubDir] = Config(SubDir, <<>>, <<IcPngPlain>>)],
       \* 13: an include that is the root config's own folder
       Only(Config(RootDir, <<RootDir>>, <<IcPng>>)) >>

CfgAt(dir) == Worlds[world][dir]

\* the folders whose entries cannot be read (permission denied)
UnreadableIn(w) == IF w = 10 THEN {SubDir} ELSE {}

Unreadable == UnreadableIn(world)

(***************************************************************************)
(* The filesystem as discover_configs sees it.                             *)
(***************************************************************************)
FileExists(path) ==
    \/ path \in FilePaths /\ files[path] # 0
    \/ \E d \in Dirs : path = ConfigFile(d) /\ CfgAt(d).present

\* fs::metadata succeeds
PathExists(path) == path \in Dirs \/ FileExists(path)

\* the immediate subdirectories of a directory
SubDirs(dir) == {d \in Dirs : Len(d) = Len(dir) + 1 /\ IsPrefix(dir, d)}

\* the entries WalkDir and read_dir can come across
Entries ==
    {p \in Dirs \cup FilePaths \cup {ConfigFile(d) : d \in Dirs} : PathExists(p)}

\* the entries WalkDir yields an Err for: what lies in a folder it cannot list
WalkErrors(base_path) ==
    {p \in Entries : /\ IsPrefix(base_path, p)
                     /\ \E d \in Unreadable : IsPrefix(d, p) /\ p # d}

\* every order in which a directory listing can enumerate a set of entries
Enumerations(S) ==
    {s \in [1..Cardinality(S) -> S] : {s[k] : k \in 1..Cardinality(S)} = S}

(***************************************************************************)
(* Errors (sync.rs:525-568).                                               *)
(***************************************************************************)
NoError == [kind |-> "none", path |-> <<>>]
Err(kind, path) == [kind |-> kind, path |-> path]

\* an Err that is dropped: the run goes on from where it was
OnErrorIgnored(at, err) == at

\* a failed upload that still lets the manifest be written
OnErrorWritesManifest(at, err) ==
    IF err.kind = "Upload" THEN "write_manifest" ELSE "failed"

\* the `?` of sync() and of the session's methods: an Err ends the run there
OnError(at, err) == "failed"

(***************************************************************************)
(* Manifest and SyncInput.                                                 *)
(***************************************************************************)
\* a digest that does not depend on the content
GenerateAssetHashOfNothing(contents) == <<"sha256", 0>>

\* generate_asset_hash: a digest, one per content
GenerateAssetHash(contents) == <<"sha256", contents>>

NoEntry == [present |-> FALSE]
InputManifest(hash, id, slice, config) ==
    [present |-> TRUE, hash |-> hash, id |-> id, slice |-> slice, config |-> config]

\* Manifest::default()
ManifestDefault == [n \in NameUniverse |-> NoEntry]

AbsentManifest == [exists |-> FALSE, readable |-> FALSE, inputs |-> ManifestDefault]
CorruptManifest == [exists |-> TRUE, readable |-> FALSE, inputs |-> ManifestDefault]
ManifestFile(m) == [exists |-> TRUE, readable |-> TRUE, inputs |-> m]

NoInput == [present |-> FALSE]
SyncInput(path, config_index, hash, id) ==
    [present |-> TRUE, path |-> path, config_index |-> config_index,
     hash |-> hash, id |-> id]

NoInputs == [n \in NameUniverse |-> NoInput]

Discovered(ins) == {n \in NameUniverse : ins[n].present}

\* &self.configs[input.config_index.0].inputs[input.config_index.1]
InputConfigOf(cfgs, input) ==
    cfgs[input.config_index[1] + 1].inputs[input.config_index[2] + 1]

(***************************************************************************)
(* SyncSession::new (sync.rs:97-116).                                      *)
(***************************************************************************)
\* a read that takes a missing manifest for an error like any other
ReadManifestStrict(disk) ==
    IF disk.exists /\ disk.readable THEN [ok |-> TRUE, inputs |-> disk.inputs]
    ELSE [ok |-> FALSE, inputs |-> ManifestDefault]

\* Manifest::read_from_folder with the match of sync.rs:105-109: a manifest
\* that is not found is the default one, any other failure is an Err
ReadManifest(disk) ==
    IF ~disk.exists THEN [ok |-> TRUE, inputs |-> ManifestDefault]
    ELSE IF disk.readable THEN [ok |-> TRUE, inputs |-> disk.inputs]
    ELSE [ok |-> FALSE, inputs |-> ManifestDefault]

New ==
    /\ pc = "new"
    /\ start_manifest' = disk_manifest
    /\ LET read == ReadManifest(disk_manifest)
       IN  IF read.ok
           THEN /\ configs' = <<CfgAt(RootDir)>>
                /\ original_manifest' = read.inputs
                /\ inputs' = NoInputs
                /\ stages' = Append(stages, "new")
                /\ pc' = "discover_configs_begin"
                /\ UNCHANGED error
           ELSE /\ error' = Err("Manifest", RootDir)
                /\ pc' = OnError(pc, error')
                /\ UNCHANGED <<configs, original_manifest, inputs, stages>>
    /\ UNCHANGED <<run, world, target, auth, files, disk_manifest,
                   generated, to_search, cursor, walk, groups, group, next_id,
                   upload_calls, upload_ids, decision, writes, prev>>
    /\ UNCHANGED cgvars

(***************************************************************************)
(* SyncSession::discover_configs (sync.rs:128-197).                        *)
(***************************************************************************)
\* includes that leave out a config the session already holds
IncludePathsUnvisited(config) ==
    IF pc = "discover_configs" /\ \E k \in 1..Len(configs) : configs[k] = config
    THEN <<>>
    ELSE config.includes

\* config.includes.iter().map(|include| include.path.clone())
IncludePaths(config) == config.includes

\* a queue that takes new paths at its front
ExtendFront(queue, paths) == paths \o queue

\* to_search.extend(..) and to_search.push_back(..): new paths go to the back
Extend(queue, paths) == queue \o paths

\* a push that puts the config in front of the root config
PushConfigFront(cfgs, config) == <<config>> \o cfgs

\* a push that leaves out a config the list already holds
PushConfigOnce(cfgs, config) ==
    IF \E k \in 1..Len(cfgs) : cfgs[k] = config THEN cfgs ELSE Append(cfgs, config)

\* self.configs.push(config)
PushConfig(cfgs, config) == Append(cfgs, config)

DiscoverConfigsBegin ==
    /\ pc = "discover_configs_begin"
    /\ to_search' = Extend(<<>>, IncludePaths(configs[1]))
    /\ pc' = "discover_configs"
    /\ UNCHANGED <<run, error, world, target, auth, files, disk_manifest,
                   generated, configs, original_manifest, inputs, cursor, walk,
                   groups, group, next_id, upload_calls, upload_ids, decision,
                   writes, stages, start_manifest, prev>>
    /\ UNCHANGED cgvars

\* Config::read_from_file: the file parses as a config
IsConfigFile(path) == \E d \in Dirs : path = ConfigFile(d) /\ CfgAt(d).present

ConfigOfFile(path) == CfgAt(CHOOSE d \in Dirs : path = ConfigFile(d))

\* a loop that reads the front of the queue and leaves it there
PeekFront(queue) == queue

\* to_search.pop_front(): the queue without the path taken from it
PopFront(queue) == Tail(queue)

\* one iteration of `while let Some(search_path) = to_search.pop_front()`
DiscoverConfigsStep ==
    /\ pc = "discover_configs"
    /\ to_search # <<>>
    /\ Len(configs) < MaxConfigs
    /\ LET search_path == Head(to_search)
           rest == PopFront(to_search)
       IN  IF ~PathExists(search_path)
           THEN /\ error' = Err("Io", search_path)
                /\ pc' = OnError(pc, error')
                /\ to_search' = rest
                /\ UNCHANGED configs
           ELSE IF FileExists(search_path)
           THEN IF IsConfigFile(search_path)
                THEN /\ to_search' = Extend(rest, IncludePaths(ConfigOfFile(search_path)))
                     /\ configs' = PushConfig(configs, ConfigOfFile(search_path))
                     /\ UNCHANGED <<pc, error>>
                ELSE /\ error' = Err("Config", search_path)
                     /\ pc' = OnError(pc, error')
                     /\ to_search' = rest
                     /\ UNCHANGED configs
           ELSE IF search_path \in Unreadable
           THEN /\ error' = Err("Config", search_path)
                /\ pc' = OnError(pc, error')
                /\ to_search' = rest
                /\ UNCHANGED configs
           ELSE IF CfgAt(search_path).present
           THEN /\ to_search' = Extend(rest, IncludePaths(CfgAt(search_path)))
                /\ configs' = PushConfig(configs, CfgAt(search_path))
                /\ UNCHANGED <<pc, error>>
           ELSE /\ \E children \in Enumerations(SubDirs(search_path)) :
                       to_search' = Extend(rest, children)
                /\ UNCHANGED <<configs, pc, error>>
    /\ UNCHANGED <<run, world, target, auth, files, disk_manifest, generated,
                   original_manifest, inputs, cursor, walk, groups, group,
                   next_id, upload_calls, upload_ids, decision, writes, stages,
                   start_manifest, prev>>
    /\ UNCHANGED cgvars

\* the queue is empty: discover_configs returns Ok(())
DiscoverConfigsDone ==
    /\ pc = "discover_configs"
    /\ to_search = <<>>
    /\ stages' = Append(stages, "discover_configs")
    /\ pc' = "discover_inputs"
    /\ cursor' = 0
    /\ walk' = {}
    /\ UNCHANGED <<run, error, world, target, auth, files, disk_manifest,
                   generated, configs, original_manifest, inputs, to_search,
                   groups, group, next_id, upload_calls, upload_ids, decision,
                   writes, start_manifest, prev>>
    /\ UNCHANGED cgvars

(***************************************************************************)
(* SyncSession::discover_inputs (sync.rs:200-249).                         *)
(***************************************************************************)
\* input_config.glob.is_match(match_path)
GlobIsMatch(glob, match_path) ==
    /\ IsPrefix(glob.prefix, match_path)
    /\ Len(match_path) > Len(glob.prefix)
    /\ glob.recursive \/ Len(match_path) = Len(glob.prefix) + 1
    /\ Extension(match_path) = glob.ext

\* WalkDir::new(base_path), errors dropped, filtered by the glob
FilteredPaths(config, input_config) ==
    LET base_path == config.folder \o input_config.glob.prefix
    IN  {p \in Entries \ WalkErrors(base_path) :
            /\ IsPrefix(base_path, p)
            /\ GlobIsMatch(input_config.glob, StripPrefix(config.folder, p))}

\* the (config_index, input_config_index) pairs in the order the two loops visit them
RECURSIVE PatternsFrom(_, _)
PatternsFrom(cfgs, c) ==
    IF c >= Len(cfgs) THEN <<>>
    ELSE [i \in 1..Len(cfgs[c + 1].inputs) |-> <<c, i - 1>>] \o PatternsFrom(cfgs, c + 1)

Patterns == PatternsFrom(configs, 0)

\* the two `for` headers: the next (config, input_config) pair and its matches
DiscoverInputsGlob ==
    /\ pc = "discover_inputs"
    /\ walk = {}
    /\ cursor < Len(Patterns)
    /\ cursor' = cursor + 1
    /\ LET index == Patterns[cursor + 1]
           config == configs[index[1] + 1]
       IN  walk' = FilteredPaths(config, config.inputs[index[2] + 1])
    /\ UNCHANGED <<run, pc, error, world, target, auth, files, disk_manifest,
                   generated, configs, original_manifest, inputs, to_search,
                   groups, group, next_id, upload_calls, upload_ids, decision,
                   writes, stages, start_manifest, prev>>
    /\ UNCHANGED cgvars

\* an insert that seeds the new input's id with the previous manifest's
InsertInputPrevId(ins, name, path, config_index) ==
    [ins EXCEPT ![name] = SyncInput(path, config_index, None,
                                    IF original_manifest[name].present
                                    THEN original_manifest[name].id ELSE None)]

\* inputs.insert(name, SyncInput { .. }): the map afterwards
InsertInput(ins, name, path, config_index) ==
    [ins EXCEPT ![name] = SyncInput(path, config_index, None, None)]

\* an Err that names the path of the match just inserted
OverlapErrorNewPath(existing, path) == Err("OverlappingGlobs", path)

\* the Err returned when insert gave back an existing entry
OverlapError(existing, path) == Err("OverlappingGlobs", existing.path)

\* the body of `for matching in filtered_paths`, for any match not yet visited
DiscoverInputsMatch ==
    /\ pc = "discover_inputs"
    /\ \E matching \in walk :
          LET index == Patterns[cursor]
              config_path == configs[index[1] + 1].folder
              name == AssetNameFromPaths(config_path, matching)
              already_found == inputs[name]
          IN  /\ inputs' = InsertInput(inputs, name, matching, index)
              /\ walk' = walk \ {matching}
              /\ IF already_found.present
                 THEN /\ error' = OverlapError(already_found, matching)
                      /\ pc' = OnError(pc, error')
                 ELSE UNCHANGED <<pc, error>>
    /\ UNCHANGED <<run, world, target, auth, files, disk_manifest, generated,
                   configs, original_manifest, to_search, cursor, groups, group,
                   next_id, upload_calls, upload_ids, decision, writes, stages,
                   start_manifest, prev>>
    /\ UNCHANGED cgvars

\* both loops are exhausted: discover_inputs returns Ok(())
DiscoverInputsDone ==
    /\ pc = "discover_inputs"
    /\ walk = {}
    /\ cursor = Len(Patterns)
    /\ stages' = Append(stages, "discover_inputs")
    /\ pc' = "select_strategy"
    /\ UNCHANGED <<run, error, world, target, auth, files, disk_manifest,
                   generated, configs, original_manifest, inputs, to_search,
                   cursor, walk, groups, group, next_id, upload_calls,
                   upload_ids, decision, writes, start_manifest, prev>>
    /\ UNCHANGED cgvars

(***************************************************************************)
(* sync(): the strategy (sync.rs:41-53), and the grouping pass of          *)
(* SyncSession::sync (sync.rs:257-272).                                    *)
(***************************************************************************)
\* the keys of compatible_input_groups: InputCompatibility.packable
CompatibilityGroups(cfgs, ins) ==
    {InputConfigOf(cfgs, ins[n]).packable : n \in Discovered(ins)}

GroupOf(cfgs, ins, packable) ==
    {n \in Discovered(ins) : InputConfigOf(cfgs, ins[n]).packable = packable}

\* a strategy selection that asks no target for a credential
NeedsAuthNever(t) == FALSE

\* the strategies built from the api client: only SyncTarget::Roblox
NeedsAuth(t) == t = "Roblox"

SyncBegin ==
    /\ pc = "select_strategy"
    /\ IF NeedsAuth(target) /\ ~auth
       THEN /\ error' = Err("NoAuth", <<>>)
            /\ pc' = OnError(pc, error')
            /\ UNCHANGED <<groups, group>>
       ELSE /\ groups' = CompatibilityGroups(configs, inputs)
            /\ group' = {}
            /\ pc' = "sync"
            /\ UNCHANGED error
    /\ UNCHANGED <<run, world, target, auth, files, disk_manifest, generated,
                   configs, original_manifest, inputs, to_search, cursor, walk,
                   next_id, upload_calls, upload_ids, decision, writes, stages,
                   start_manifest, prev>>
    /\ UNCHANGED cgvars

(***************************************************************************)
(* SyncSession::sync, the loop over the groups (sync.rs:274-290).          *)
(***************************************************************************)
\* an is_image_asset that takes every file for an image
IsImageAssetAny(path) == TRUE

\* is_image_asset (sync.rs:512-519)
IsImageAsset(path) == Extension(path) \in {"png", "jpg"}

\* `for (compatibility, group) in compatible_input_groups`, in any order
SyncGroup ==
    /\ pc = "sync"
    /\ group = {}
    /\ \E packable \in groups :
          /\ groups' = groups \ {packable}
          /\ group' = IF packable THEN {} ELSE GroupOf(configs, inputs, FALSE)
    /\ UNCHANGED <<run, pc, error, world, target, auth, files, disk_manifest,
                   generated, configs, original_manifest, inputs, to_search,
                   cursor, walk, next_id, upload_calls, upload_ids, decision,
                   writes, stages, start_manifest, prev>>
    /\ UNCHANGED cgvars

(***************************************************************************)
(* SyncSession::sync_unpackable_image (sync.rs:298-367).                   *)
(***************************************************************************)
\* a Decide that reuses the previous id without comparing the config snapshot
DecideIgnoresConfig(input_manifest, hash, input_config) ==
    IF input_manifest.present /\ input_manifest.hash = Some(hash) /\ input_manifest.id.some
    THEN "reuse"
    ELSE "upload"

\* the nested conditions of sync.rs:315-362: upload, or reuse the previous id
Decide(input_manifest, hash, input_config) ==
    IF input_manifest.present
    THEN IF input_manifest.hash # Some(hash)
         THEN "upload"
         ELSE IF input_manifest.id.some
              THEN IF input_manifest.config # input_config
                   THEN "upload"
                   ELSE "reuse"
              ELSE "upload"
    ELSE "upload"

\* what strategy.upload can answer: RobloxUploadStrategy uploads or fails,
\* ContentUploadStrategy is unimplemented!() and always fails
UploadOutcomes(t) == IF t = "Roblox" THEN {"ok", "failed"} ELSE {"failed"}

\* input.hash = Some(hash.clone())
WithHash(input, hash) == [input EXCEPT !.hash = Some(hash)]

\* input.id = Some(id)
WithId(input, id) == [input EXCEPT !.id = Some(id)]

\* a lookup that takes the entry out of the map: inputs.remove(&input_name)
ManifestAfterRemove(manifest, input_name) == [manifest EXCEPT ![input_name] = NoEntry]

\* self.original_manifest.inputs.get(&input_name): the map after the lookup
ManifestAfterGet(manifest, input_name) == manifest

SyncUnpackableImage(input_name) ==
    LET input == inputs[input_name]
        hash == GenerateAssetHash(files[input.path])
        hashed == WithHash(input, hash)
    IN  \E read \in {"ok", "failed"} :
          IF read = "failed"
          THEN /\ error' = Err("Io", input.path)
               /\ pc' = OnError(pc, error')
               /\ UNCHANGED <<inputs, next_id, upload_calls, upload_ids, decision,
                              original_manifest>>
          ELSE IF Decide(original_manifest[input_name], hash,
                         InputConfigOf(configs, input)) = "reuse"
          THEN /\ inputs' = [inputs EXCEPT ![input_name] =
                                WithId(hashed, original_manifest[input_name].id.val)]
               /\ decision' = [decision EXCEPT ![input_name] = "reuse"]
               /\ original_manifest' = ManifestAfterGet(original_manifest, input_name)
               /\ UNCHANGED <<pc, error, next_id, upload_calls, upload_ids>>
          ELSE /\ decision' = [decision EXCEPT ![input_name] = "upload"]
               /\ original_manifest' = ManifestAfterGet(original_manifest, input_name)
               /\ upload_calls' = [upload_calls EXCEPT ![input_name] = @ + 1]
               /\ \E answer \in UploadOutcomes(target) :
                     IF answer = "ok"
                     THEN /\ inputs' = [inputs EXCEPT ![input_name] =
                                           WithId(hashed, next_id)]
                          /\ upload_ids' = [upload_ids EXCEPT ![input_name] = next_id]
                          /\ next_id' = next_id + 1
                          /\ UNCHANGED <<pc, error>>
                     ELSE /\ inputs' = [inputs EXCEPT ![input_name] = hashed]
                          /\ error' = Err("Upload", input.path)
                          /\ pc' = OnError(pc, error')
                          /\ UNCHANGED <<next_id, upload_ids>>

\* a loop that leaves the visited name in the group
RemainingKeepsName(names, input_name) == names

\* what is left of the group once input_name has been visited
Remaining(names, input_name) == names \ {input_name}

\* the body of `for input_name in group`, for any name not yet visited
SyncInputStep ==
    /\ pc = "sync"
    /\ \E input_name \in group :
          /\ group' = Remaining(group, input_name)
          /\ IF IsImageAsset(inputs[input_name].path)
             THEN SyncUnpackableImage(input_name)
             ELSE /\ decision' = [decision EXCEPT ![input_name] = "skip"]
                  /\ UNCHANGED <<pc, error, inputs, next_id, upload_calls, upload_ids,
                                 original_manifest>>
    /\ UNCHANGED <<run, world, target, auth, files, disk_manifest, generated,
                   configs, to_search, cursor, walk, groups,
                   writes, stages, start_manifest, prev>>
    /\ UNCHANGED cgvars

\* every group has been visited: SyncSession::sync returns Ok(())
SyncDone ==
    /\ pc = "sync"
    /\ group = {}
    /\ groups = {}
    /\ stages' = Append(stages, "sync")
    /\ pc' = "write_manifest"
    /\ UNCHANGED <<run, error, world, target, auth, files, disk_manifest,
                   generated, configs, original_manifest, inputs, to_search,
                   cursor, walk, groups, group, next_id, upload_calls,
                   upload_ids, decision, writes, start_manifest, prev>>
    /\ UNCHANGED cgvars

(***************************************************************************)
(* SyncSession::write_manifest (sync.rs:369-398).                          *)
(***************************************************************************)
\* a ManifestEntry that carries the previous config snapshot forward
ManifestEntryOldConfig(cfgs, orig, name, input) ==
    InputManifest(input.hash, input.id, None,
                  IF orig[name].present THEN orig[name].config
                  ELSE InputConfigOf(cfgs, input))

\* the InputManifest built for one input
ManifestEntry(cfgs, orig, name, input) ==
    InputManifest(input.hash, input.id, None, InputConfigOf(cfgs, input))

\* a rebuild that keeps the original entries of names not discovered
BuildManifestKeepsOld(cfgs, orig, ins) ==
    [n \in NameUniverse |->
        IF ins[n].present
        THEN InputManifest(ins[n].hash, ins[n].id, None, InputConfigOf(cfgs, ins[n]))
        ELSE orig[n]]

\* manifest.inputs = self.inputs.iter().map(..).collect()
BuildManifest(cfgs, orig, ins) ==
    [n \in NameUniverse |->
        IF ins[n].present THEN ManifestEntry(cfgs, orig, n, ins[n]) ELSE NoEntry]

WriteManifest ==
    /\ pc = "write_manifest"
    /\ disk_manifest' = ManifestFile(BuildManifest(configs, original_manifest, inputs))
    /\ writes' = writes + 1
    /\ stages' = Append(stages, "write_manifest")
    /\ pc' = "codegen"
    /\ UNCHANGED <<run, error, world, target, auth, files, generated, configs,
                   original_manifest, inputs, to_search, cursor, walk, groups,
                   group, next_id, upload_calls, upload_ids, decision,
                   start_manifest, prev>>
    /\ UNCHANGED cgvars

(***************************************************************************)
(* SyncSession::codegen (sync.rs:400-438).                                 *)
(***************************************************************************)
NoFile == [present |-> FALSE]

\* AssetUrlTemplate (sync.rs:441-455)
AssetUrlTemplate(id) == [present |-> TRUE, text |-> <<"return rbxassetid://", id>>]

OutputPaths == {WithExtension(f, "lua") : f \in FilePaths}

NoOutputs == [p \in OutputPaths |-> NoFile]

\* the inputs codegen writes a file for
GeneratesCode(cfgs, input) ==
    /\ InputConfigOf(cfgs, input).codegen = "AssetUrl"
    /\ input.id.some

Codegen ==
    /\ pc = "codegen"
    /\ generated' =
          [p \in OutputPaths |->
              LET writers == {n \in Discovered(inputs) :
                                 /\ GeneratesCode(configs, inputs[n])
                                 /\ WithExtension(inputs[n].path, "lua") = p}
              IN  IF writers = {} THEN NoFile
                  ELSE AssetUrlTemplate(inputs[CHOOSE n \in writers : TRUE].id.val)]
    /\ stages' = Append(stages, "codegen")
    /\ pc' = "done"
    /\ UNCHANGED <<run, error, world, target, auth, files, disk_manifest,
                   configs, original_manifest, inputs, to_search, cursor, walk,
                   groups, group, next_id, upload_calls, upload_ids, decision,
                   writes, start_manifest, prev>>
    /\ UNCHANGED cgvars

(***************************************************************************)
(* perform_codegen (codegen.rs): the inputs it is given.                   *)
(***************************************************************************)
\* perform_codegen is followed for slices of at most this many inputs
MaxInputs == 3

\* input.config.base_path
BasePath == <<Seg("assets", "")>>

\* the file codegen_grouped writes
OutputFile == <<Seg("assets", ""), Seg("init", "lua")>>

\* paths relative to the base path
RelA == <<Seg("a", "png")>>
RelAB == <<Seg("a", ""), Seg("b", "png")>>
RelABX == <<Seg("a", ""), Seg("b", ""), Seg("x", "png")>>
RelABXJpg == <<Seg("a", ""), Seg("b", ""), Seg("x", "jpg")>>
RelABY == <<Seg("a", ""), Seg("b", ""), Seg("y", "png")>>
RelACZ == <<Seg("a", ""), Seg("c", ""), Seg("z", "png")>>
RelativePaths == <<RelA, RelAB, RelABX, RelABXJpg, RelABY, RelACZ>>

\* data::SyncInput as codegen.rs reads it: path, config.base_path,
\* config.codegen, id and slice
CodegenInput(rel, codegen, id, slice) ==
    [path |-> BasePath \o rel, base_path |-> BasePath, codegen |-> codegen,
     id |-> id, slice |-> slice]

\* the inputs a file can be: each file has an identifier of its own, if any
CodegenInputsAt(k) ==
    {CodegenInput(RelativePaths[k], "AssetUrl", Some(k), None),
     CodegenInput(RelativePaths[k], "AssetUrl", None, None),
     CodegenInput(RelativePaths[k], "None", Some(k), None),
     CodegenInput(RelativePaths[k], "UrlAndSlice", Some(k), None)}

CodegenInputs == UNION {CodegenInputsAt(k) : k \in 1..Len(RelativePaths)}

\* the slices of inputs: in any order, no two for the same file
CodegenInputLists ==
    UNION {{s \in [1..n -> CodegenInputs] :
               \A j, k \in 1..n : j # k => s[j].path # s[k].path}
           : n \in 0..MaxInputs}

CodegenOutputPaths ==
    {OutputFile} \cup {WithExtension(BasePath \o RelativePaths[k], "lua") :
                          k \in 1..Len(RelativePaths)}

NoCodegenFiles == [p \in CodegenOutputPaths |-> NoFile]

(***************************************************************************)
(* The Lua AST and the templates (codegen.rs:191-230).                     *)
(***************************************************************************)
ExpressionString(text) == [type |-> "String", value |-> text]
ExpressionRaw(text) == [type |-> "Raw", value |-> text]
ExpressionTable(entries) == [type |-> "Table", value |-> entries]

\* AssetUrlTemplate::to_lua
AssetUrlTemplateToLua(id) == ExpressionString(<<"rbxassetid://", id>>)

\* UrlAndSliceTemplate::to_lua
UrlAndSliceTemplateToLua(id, slice) ==
    ExpressionTable(
        <<<<Seg("Image", ""), ExpressionString(<<"rbxassetid://", id>>)>>>> \o
        (IF slice.some
         THEN <<<<Seg("ImageRectOffset", ""), ExpressionRaw(<<"Vector2.new", slice.val.min>>)>>,
                <<Seg("ImageRectSize", ""), ExpressionRaw(<<"Vector2.new", slice.val.size>>)>>>>
         ELSE <<>>))

CODEGEN_HEADER ==
    "-- This file was @generated by Tarmac. It is not intended for manual editing."

\* writeln!(file, CODEGEN_HEADER); write!(file, Statement::Return(expression))
LuaFile(expression) ==
    [present |-> TRUE, header |-> CODEGEN_HEADER,
     ast |-> [statement |-> "Return", value |-> expression]]

(***************************************************************************)
(* codegen_grouped: the tree of Items (codegen.rs:35-97).  The tree is a   *)
(* map from the path of names that leads to an Item to that Item; the      *)
(* empty path is root_folder itself.                                       *)
(***************************************************************************)
ItemFolder == [kind |-> "Folder"]
ItemInput(input) == [kind |-> "Input", input |-> input]

\* BTreeMap::new()
EmptyFolder == [at \in {<<>>} |-> ItemFolder]

\* segment.file_stem(): the name a file is a leaf under
LeafName(segment) == Seg(segment.stem, "")

\* segment.to_str(): the name a folder is entered under
FolderName(segment) == segment

\* what lies inside the Item at a path of names
Below(tree, at) == {k \in DOMAIN tree : IsPrefix(at, k) /\ k # at}

\* current_dir.insert(name, Item::Input(input)): what was there is replaced
InsertLeaf(tree, at, input) ==
    [k \in (DOMAIN tree \ Below(tree, at)) \cup {at} |->
        IF k = at THEN ItemInput(input) ELSE tree[k]]

\* current_dir.entry(name).or_insert_with(|| Item::Folder(BTreeMap::new()))
EntryOrInsertFolder(tree, at) ==
    [k \in DOMAIN tree \cup {at} |-> IF k \in DOMAIN tree THEN tree[k] ELSE ItemFolder]

\* a traversal that turns the leaf in its way into a folder and goes on
TraverseLeafAsFolder(tree, at) ==
    [tree |-> [tree EXCEPT ![at] = ItemFolder], stop |-> FALSE]

\* the arm Item::Input(_) of codegen.rs:86-93: log::error! and break
TraverseLeaf(tree, at) == [tree |-> tree, stop |-> TRUE]

\* input.path.strip_prefix(&input.config.base_path), as segments
RelativePath(input) == StripPrefix(input.base_path, input.path)

\* `for (i, segment) in segments.iter().enumerate()` from index i on
RECURSIVE Navigate(_, _, _, _, _)
Navigate(tree, current_dir, segments, i, input) ==
    IF i = Len(segments) - 1
    THEN [tree |-> InsertLeaf(tree, current_dir \o <<LeafName(segments[i + 1])>>, input),
          logged |-> FALSE]
    ELSE LET next_dir == current_dir \o <<FolderName(segments[i + 1])>>
             entered == EntryOrInsertFolder(tree, next_dir)
         IN  IF entered[next_dir].kind = "Folder"
             THEN Navigate(entered, next_dir, segments, i + 1, input)
             ELSE LET seen == TraverseLeaf(entered, next_dir)
                  IN  IF seen.stop
                      THEN [tree |-> seen.tree, logged |-> TRUE]
                      ELSE Navigate(seen.tree, next_dir, segments, i + 1, input)

\* the body of `for input in inputs` (codegen.rs:44-97)
TreeInsert(tree, input) ==
    IF RelativePath(input) = <<>> THEN [tree |-> tree, logged |-> FALSE]
    ELSE Navigate(tree, <<>>, RelativePath(input), 0, input)

(***************************************************************************)
(* build_item (codegen.rs:99-134).                                         *)
(***************************************************************************)
\* the order of &str keys, for the names of the model
Alphabet == <<"a", "b", "c", "x", "y", "z">>
Extensions == <<"", "jpg", "png">>
StemRank(stem) == CHOOSE i \in 1..Len(Alphabet) : Alphabet[i] = stem
ExtRank(e) == CHOOSE i \in 1..Len(Extensions) : Extensions[i] = e

NameLeq(m, n) ==
    \/ StemRank(m.stem) < StemRank(n.stem)
    \/ m.stem = n.stem /\ ExtRank(m.ext) <= ExtRank(n.ext)

\* an iteration from the greatest key down
RECURSIVE BTreeOrderDescending(_)
BTreeOrderDescending(names) ==
    IF names = {} THEN <<>>
    ELSE LET last == CHOOSE m \in names : \A n \in names : NameLeq(n, m)
         IN  <<last>> \o BTreeOrderDescending(names \ {last})

\* BTreeMap::iter(): the keys in ascending order
RECURSIVE BTreeOrder(_)
BTreeOrder(names) ==
    IF names = {} THEN <<>>
    ELSE LET first == CHOOSE m \in names : \A n \in names : NameLeq(m, n)
         IN  <<first>> \o BTreeOrder(names \ {first})

\* the arm Item::Input of build_item (codegen.rs:109-132)
BuildItemInput(input) ==
    IF input.codegen = "AssetUrl"
    THEN IF input.id.some THEN Some(AssetUrlTemplateToLua(input.id.val)) ELSE None
    ELSE IF input.codegen = "UrlAndSlice"
    THEN IF input.id.some
         THEN Some(UrlAndSliceTemplateToLua(input.id.val, input.slice))
         ELSE None
    ELSE None

Children(tree, at) == {k \in DOMAIN tree : Len(k) = Len(at) + 1 /\ IsPrefix(at, k)}

RECURSIVE BuildItem(_, _)
BuildItem(tree, at) ==
    IF tree[at].kind = "Folder"
    THEN LET names == BTreeOrder({k[Len(k)] : k \in Children(tree, at)})
             built == [i \in 1..Len(names) |->
                          <<names[i], BuildItem(tree, at \o <<names[i]>>)>>]
             kept == SelectSeq(built, LAMBDA entry : entry[2].some)
         IN  Some(ExpressionTable([i \in 1..Len(kept) |-> <<kept[i][1], kept[i][2].val>>]))
    ELSE BuildItemInput(tree[at].input)

(***************************************************************************)
(* perform_codegen, codegen_grouped and codegen_individual as steps.       *)
(***************************************************************************)
\* perform_codegen (codegen.rs:21-27)
PerformCodegen ==
    /\ cg_pc = "perform_codegen"
    /\ cg_pc' = IF output_path.some THEN "codegen_grouped" ELSE "codegen_individual"
    /\ root_folder' = EmptyFolder
    /\ cg_pos' = 0
    /\ UNCHANGED <<output_path, cg_inputs, cg_files, cg_log, cg_written>>
    /\ UNCHANGED syncvars

\* one iteration of `for input in inputs` of codegen_grouped
CodegenGroupedInsert ==
    /\ cg_pc = "codegen_grouped"
    /\ cg_pos < Len(cg_inputs)
    /\ LET input == cg_inputs[cg_pos + 1]
           inserted == TreeInsert(root_folder, input)
       IN  /\ root_folder' = inserted.tree
           /\ cg_log' = IF inserted.logged THEN Append(cg_log, input.path) ELSE cg_log
    /\ cg_pos' = cg_pos + 1
    /\ UNCHANGED <<output_path, cg_inputs, cg_pc, cg_files, cg_written>>
    /\ UNCHANGED syncvars

\* the tree is complete: build_item on the root and the write of the file
CodegenGroupedWrite ==
    /\ cg_pc = "codegen_grouped"
    /\ cg_pos = Len(cg_inputs)
    /\ LET root_item == BuildItem(root_folder, <<>>).val
       IN  cg_files' = [cg_files EXCEPT ![output_path.val] = LuaFile(root_item)]
    /\ cg_written' = Append(cg_written, [input |-> None, path |-> output_path.val])
    /\ cg_pc' = "done"
    /\ UNCHANGED <<output_path, cg_inputs, cg_pos, root_folder, cg_log>>
    /\ UNCHANGED syncvars

\* the match of codegen_individual (codegen.rs:150-174)
IndividualExpression(input) ==
    IF input.codegen = "AssetUrl"
    THEN IF input.id.some THEN Some(AssetUrlTemplateToLua(input.id.val)) ELSE None
    ELSE IF input.codegen = "UrlAndSlice"
    THEN IF input.id.some
         THEN Some(UrlAndSliceTemplateToLua(input.id.val, input.slice))
         ELSE None
    ELSE None

\* one iteration of `for input in inputs` of codegen_individual
CodegenIndividualStep ==
    /\ cg_pc = "codegen_individual"
    /\ cg_pos < Len(cg_inputs)
    /\ LET input == cg_inputs[cg_pos + 1]
           maybe_expression == IndividualExpression(input)
           path == WithExtension(input.path, "lua")
       IN  IF maybe_expression.some
           THEN /\ cg_files' = [cg_files EXCEPT ![path] = LuaFile(maybe_expression.val)]
                /\ cg_written' = Append(cg_written, [input |-> Some(cg_pos), path |-> path])
           ELSE UNCHANGED <<cg_files, cg_written>>
    /\ cg_pos' = cg_pos + 1
    /\ UNCHANGED <<output_path, cg_inputs, cg_pc, root_folder, cg_log>>
    /\ UNCHANGED syncvars

\* the loop of codegen_individual is over: Ok(())
CodegenIndividualDone ==
    /\ cg_pc = "codegen_individual"
    /\ cg_pos = Len(cg_inputs)
    /\ cg_pc' = "done"
    /\ UNCHANGED <<output_path, cg_inputs, cg_pos, root_folder, cg_files, cg_log,
                   cg_written>>
    /\ UNCHANGED syncvars

\* perform_codegen is not running
CodegenIdle ==
    /\ output_path = None
    /\ cg_inputs = <<>>
    /\ cg_pc = "off"
    /\ cg_pos = 0
    /\ root_folder = EmptyFolder
    /\ cg_files = NoCodegenFiles
    /\ cg_log = <<>>
    /\ cg_written = <<>>

(***************************************************************************)
(* The environment: the states a run can start in, and what happens to the *)
(* files between one run and the next.                                     *)
(***************************************************************************)
\* a.png and sub/a.png come and go and are edited; b.txt and c.jpg stay as they are
FileStates == {f \in [FilePaths -> 0..MaxContent] : f[FileB] = 1 /\ f[FileC] = 1}

Hashes == {None} \cup {Some(GenerateAssetHash(c)) : c \in 1..MaxContent}

PrevIds == {None} \cup {Some(i) : i \in 1..MaxPrevId}

InitialEntries ==
    {NoEntry} \cup
    {InputManifest(h, i, None, c) : h \in Hashes, i \in PrevIds, c \in {IcPng, IcPngRec}}

\* what an earlier version of the tree left for sub/a.png: nothing, or a
\* complete entry written under the recursive glob
NestedEntries ==
    {NoEntry} \cup
    {InputManifest(Some(GenerateAssetHash(c)), Some(MaxPrevId), None, IcPngRec) :
        c \in 1..MaxContent}

InitialManifests ==
    {AbsentManifest, CorruptManifest} \cup
    {ManifestFile(m) :
        m \in {x \in [NameUniverse -> InitialEntries] :
                  /\ x[AssetNameFromPaths(RootDir, FileSubA)] \in NestedEntries
                  /\ \A n \in NameUniverse : Extension(n) # "png" => x[n] = NoEntry}}

NoCalls == [n \in NameUniverse |-> 0]
NoDecisions == [n \in NameUniverse |-> "none"]
NoPrev == [ok |-> FALSE, manifest |-> AbsentManifest,
           files |-> [f \in FilePaths |-> 0], contents |-> NoCalls]

Init ==
    /\ run = 1
    /\ pc = "new"
    /\ error = NoError
    /\ world \in 1..Len(Worlds)
    /\ \E option \in {<<"Roblox", TRUE>>, <<"Roblox", FALSE>>, <<"ContentFolder", FALSE>>} :
          target = option[1] /\ auth = option[2]
    /\ files \in FileStates
    /\ disk_manifest \in InitialManifests
    /\ generated = NoOutputs
    /\ configs = <<>>
    /\ original_manifest = ManifestDefault
    /\ inputs = NoInputs
    /\ to_search = <<>>
    /\ cursor = 0
    /\ walk = {}
    /\ groups = {}
    /\ group = {}
    /\ next_id = MaxPrevId + 1
    /\ upload_calls = NoCalls
    /\ upload_ids = NoCalls
    /\ decision = NoDecisions
    /\ writes = 0
    /\ stages = <<>>
    /\ start_manifest = disk_manifest
    /\ prev = NoPrev
    /\ CodegenIdle

\* the command is run again after a run that succeeded; files may have been
\* edited, added or removed in between, the configs are the same
NextRun ==
    /\ pc = "done"
    /\ run < MaxRuns
    /\ run' = run + 1
    /\ prev' = [ok |-> TRUE, manifest |-> disk_manifest, files |-> files,
                contents |-> [n \in NameUniverse |->
                                 IF inputs[n].present THEN files[inputs[n].path] ELSE 0]]
    /\ files' \in FileStates
    /\ pc' = "new"
    /\ generated' = NoOutputs
    /\ configs' = <<>>
    /\ original_manifest' = ManifestDefault
    /\ inputs' = NoInputs
    /\ cursor' = 0
    /\ upload_calls' = NoCalls
    /\ upload_ids' = NoCalls
    /\ decision' = NoDecisions
    /\ writes' = 0
    /\ stages' = <<>>
    /\ start_manifest' = disk_manifest
    /\ UNCHANGED <<error, world, target, auth, disk_manifest, to_search, walk,
                   groups, group, next_id>>
    /\ UNCHANGED cgvars

Next ==
    \/ New
    \/ DiscoverConfigsBegin
    \/ DiscoverConfigsStep
    \/ DiscoverConfigsDone
    \/ DiscoverInputsGlob
    \/ DiscoverInputsMatch
    \/ DiscoverInputsDone
    \/ SyncBegin
    \/ SyncGroup
    \/ SyncInputStep
    \/ SyncDone
    \/ WriteManifest
    \/ Codegen
    \/ NextRun

Spec == Init /\ [][Next]_vars

(***************************************************************************)
(* SyncSession::new and discover_configs on their own, for what is asked   *)
(* of the loop's progress.  No manifest is on disk; the files and the      *)
(* configs are any of the model.                                           *)
(***************************************************************************)
DiscoveryInit ==
    /\ Init
    /\ target = "ContentFolder"
    /\ disk_manifest = AbsentManifest

DiscoveryNext ==
    \/ New
    \/ DiscoverConfigsBegin
    \/ DiscoverConfigsStep
    \/ DiscoverConfigsDone

\* the loop of discover_configs runs on: a call or an iteration that can be
\* made is made
DiscoverySpec ==
    /\ DiscoveryInit /\ [][DiscoveryNext]_vars
    /\ WF_vars(DiscoverConfigsBegin)
    /\ WF_vars(DiscoverConfigsStep)
    /\ WF_vars(DiscoverConfigsDone)

(***************************************************************************)
(* perform_codegen on its own: every slice of inputs, in both modes.       *)
(***************************************************************************)
\* the sync command is not running
SyncIdle ==
    /\ run = 0
    /\ pc = "off"
    /\ error = NoError
    /\ world = 1
    /\ target = "ContentFolder"
    /\ auth = FALSE
    /\ files = [f \in FilePaths |-> 0]
    /\ disk_manifest = AbsentManifest
    /\ generated = NoOutputs
    /\ configs = <<>>
    /\ original_manifest = ManifestDefault
    /\ inputs = NoInputs
    /\ to_search = <<>>
    /\ cursor = 0
    /\ walk = {}
    /\ groups = {}
    /\ group = {}
    /\ next_id = 0
    /\ upload_calls = NoCalls
    /\ upload_ids = NoCalls
    /\ decision = NoDecisions
    /\ writes = 0
    /\ stages = <<>>
    /\ start_manifest = AbsentManifest
    /\ prev = NoPrev

CodegenInit ==
    /\ SyncIdle
    /\ output_path \in {None, Some(OutputFile)}
    /\ cg_inputs \in CodegenInputLists
    /\ cg_pc = "perform_codegen"
    /\ cg_pos = 0
    /\ root_folder = EmptyFolder
    /\ cg_files = NoCodegenFiles
    /\ cg_log = <<>>
    /\ cg_written = <<>>

CodegenNext ==
    \/ PerformCodegen
    \/ CodegenGroupedInsert
    \/ CodegenGroupedWrite
    \/ CodegenIndividualStep
    \/ CodegenIndividualDone

CodegenSpec == CodegenInit /\ [][CodegenNext]_vars

(***************************************************************************)
(* Vocabulary of the properties.                                           *)
(***************************************************************************)
\* the input is what sync.rs:275-283 hands to sync_unpackable_image
UnpackableImage(n) ==
    /\ inputs[n].present
    /\ ~InputConfigOf(configs, inputs[n]).packable
    /\ IsImageAsset(inputs[n].path)

\* the digest of what the input's file holds during this run
FreshHash(n) == GenerateAssetHash(files[inputs[n].path])

\* sync_unpackable_image has read the input's contents and decided
Synced(n) == decision[n] \in {"reuse", "upload"}

\* the last row of the decision table
ReuseRow(n) ==
    LET previous == original_manifest[n]
    IN  /\ previous.present
        /\ previous.hash = Some(FreshHash(n))
        /\ previous.id.some
        /\ previous.config = InputConfigOf(configs, inputs[n])

\* SyncSession::sync has returned Ok(())
SyncReturned == pc \in {"write_manifest", "codegen", "done"}

\* write_manifest has written this run's manifest
ManifestWritten == pc \in {"codegen", "done"}

Uploaded == {n \in NameUniverse : upload_calls[n] > 0}

(***************************************************************************)
(* C1: every non-packable image whose contents were read is uploaded,      *)
(* unless the original manifest has an entry for its name whose hash is    *)
(* the fresh content hash, whose id is present and whose config snapshot   *)
(* equals the input's current InputConfig; then there is no upload call    *)
(* and the input's id is the previous id.  After an upload that returned   *)
(* an identifier, the input's id is that identifier and its hash the fresh *)
(* hash.                                                                   *)
(***************************************************************************)
C1_DecisionTable ==
    /\ \A n \in NameUniverse : Synced(n) =>
          /\ UnpackableImage(n)
          /\ upload_calls[n] = 0 <=> ReuseRow(n)
          /\ ReuseRow(n) =>
                /\ inputs[n].id = original_manifest[n].id
                /\ upload_ids[n] = 0
          /\ ~ReuseRow(n) => upload_calls[n] = 1
          /\ upload_ids[n] # 0 =>
                /\ inputs[n].id = Some(upload_ids[n])
                /\ inputs[n].hash = Some(FreshHash(n))
    /\ SyncReturned => \A n \in NameUniverse : UnpackableImage(n) => Synced(n)

\* one input reused its id while another, whose hash and id were in the
\* manifest under another config snapshot, was uploaded
C1_Witness ==
    \E n, k \in NameUniverse :
        /\ decision[n] = "reuse"
        /\ upload_ids[k] # 0
        /\ original_manifest[k].present
        /\ original_manifest[k].hash = Some(FreshHash(k))
        /\ original_manifest[k].id.some

(***************************************************************************)
(* C2: a run that follows a successful run, with the same configs, the     *)
(* same files and the manifest that run wrote, makes no upload call and    *)
(* writes a manifest equal to the one it loaded.                           *)
(***************************************************************************)
C2_Idempotence ==
    (run > 1 /\ prev.ok /\ files = prev.files) =>
        /\ Uploaded = {}
        /\ ManifestWritten => disk_manifest = prev.manifest

\* such a second run has finished, having reused an identifier
C2_Witness ==
    /\ run > 1
    /\ prev.ok
    /\ files = prev.files
    /\ pc = "done"
    /\ \E n \in NameUniverse : decision[n] = "reuse"

(***************************************************************************)
(* C3: within one run the upload strategy is called at most once for any   *)
(* asset name.                                                             *)
(***************************************************************************)
C3_AtMostOneUpload == \A n \in NameUniverse : upload_calls[n] <= 1

\* a run has finished in which three inputs were uploaded, one of them
\* known to the original manifest
C3_Witness ==
    /\ pc = "done"
    /\ Cardinality(Uploaded) >= 3
    /\ \E n \in Uploaded : original_manifest[n].present

(***************************************************************************)
(* C4, as claimed: on a run that follows a successful run with the same    *)
(* configs, an upload call is made only for non-packable image inputs      *)
(* whose content differs from what the input of that name held in the      *)
(* previous run, or that the previous run did not have; once sync has      *)
(* returned, every such input has been uploaded, and every input whose     *)
(* content is unchanged has the identifier the previous manifest records   *)
(* for it.                                                                 *)
(***************************************************************************)
ChangedOrNew(n) == prev.contents[n] # files[inputs[n].path]

Reconfigured(n) ==
    /\ prev.manifest.inputs[n].present
    /\ prev.manifest.inputs[n].config # InputConfigOf(configs, inputs[n])

C5_FirstRun ==
    (~start_manifest.exists /\ pc # "new") =>
        /\ error.kind # "Manifest"
        /\ original_manifest = ManifestDefault
        /\ \A n \in Uploaded : UnpackableImage(n)
        /\ ManifestWritten => \A n \in NameUniverse :
              /\ disk_manifest.inputs[n].present <=> inputs[n].present
              /\ UnpackableImage(n) => upload_calls[n] = 1 /\ upload_ids[n] # 0
              /\ n \in Uploaded =>
                    /\ disk_manifest.inputs[n].hash = Some(FreshHash(n))
                    /\ disk_manifest.inputs[n].id = Some(upload_ids[n])

\* a run that found no manifest has finished and written one with at least
\* two uploaded inputs
C5_Witness ==
    /\ ~start_manifest.exists
    /\ pc = "done"
    /\ disk_manifest.exists
    /\ Cardinality(Uploaded) >= 2

(***************************************************************************)
(* C6: an input's id is set if and only if the reuse branch was taken for  *)
(* it, and then it is the original manifest's id, or an upload for it      *)
(* returned an identifier in this run, and then it is that identifier; an  *)
(* input for which an upload was decided never holds the id the original   *)
(* manifest records for it.                                                *)
(***************************************************************************)
C6_IdProvenance ==
    \A n \in Discovered(inputs) :
        /\ inputs[n].id.some <=> (decision[n] = "reuse" \/ upload_ids[n] # 0)
        /\ decision[n] = "reuse" =>
              /\ original_manifest[n].present
              /\ inputs[n].id = original_manifest[n].id
        /\ upload_ids[n] # 0 => inputs[n].id = Some(upload_ids[n])
        /\ (decision[n] = "upload" /\ original_manifest[n].present
                /\ original_manifest[n].id.some) =>
              inputs[n].id # original_manifest[n].id

\* an upload was decided for two inputs the manifest had an id for: one
\* upload returned an identifier, the other failed and left the id unset
C6_Witness ==
    \E n, k \in Discovered(inputs) :
        /\ decision[n] = "upload" /\ original_manifest[n].present
        /\ original_manifest[n].id.some /\ ~inputs[n].id.some
        /\ decision[k] = "upload" /\ original_manifest[k].present
        /\ original_manifest[k].id.some /\ upload_ids[k] # 0

(***************************************************************************)
(* C7: when a match derives an asset name that is already a key of the     *)
(* input set, discover_inputs fails with OverlappingGlobs carrying the     *)
(* path of the entry registered first, and otherwise registers the match;  *)
(* so once discover_inputs has returned Ok, all matches of all globs have  *)
(* pairwise distinct names and each is the input registered under its name.*)
(***************************************************************************)
AllMatches ==
    LET patterns == Patterns
    IN  UNION {{<<k, p>> : p \in FilteredPaths(configs[patterns[k][1] + 1],
                                               InputConfigOf(configs, [config_index |-> patterns[k]]))}
               : k \in 1..Len(patterns)}

MatchName(m) == AssetNameFromPaths(configs[Patterns[m[1]][1] + 1].folder, m[2])

InputsDiscovered == Len(stages) >= 3

C7_DistinctKeys ==
    InputsDiscovered =>
        LET patterns == Patterns
            named == {<<m, AssetNameFromPaths(configs[patterns[m[1]][1] + 1].folder, m[2])>>
                         : m \in AllMatches}
        IN  /\ \A x, y \in named : x[1] # y[1] => x[2] # y[2]
            /\ \A x \in named :
                  /\ inputs[x[2]].present
                  /\ inputs[x[2]].path = x[1][2]
                  /\ inputs[x[2]].config_index = patterns[x[1][1]]

C7_MatchStep ==
    (pc = "discover_inputs" /\ walk # {} /\ walk' # walk) =>
        LET matching == CHOOSE p \in walk \ walk' : TRUE
            name == MatchName(<<cursor, matching>>)
        IN  IF inputs[name].present
            THEN /\ error' = Err("OverlappingGlobs", inputs[name].path)
                 /\ pc' = "failed"
            ELSE /\ error' = NoError
                 /\ pc' = "discover_inputs"
                 /\ inputs'[name].path = matching

C7_OverlappingGlobs == [](C7_DistinctKeys) /\ [][C7_MatchStep]_vars

\* discovery failed on a name two configs derive from different files: the
\* error carries the path registered first, the map holds the later one
C7_Witness ==
    /\ error = Err("OverlappingGlobs", FileA)
    /\ inputs[AssetNameFromPaths(RootDir, FileA)].path = FileSubA

(***************************************************************************)
(* C8: the stages of a run complete in the order new, config discovery,    *)
(* input discovery, sync, manifest write, codegen; no input is hashed or   *)
(* uploaded before both discoveries have returned Ok; the manifest is      *)
(* written at most once, only after sync has returned with every group     *)
(* visited, and exactly once by a run that finishes; codegen writes only   *)
(* after the manifest write; and once a stage has failed nothing more      *)
(* happens: a discovery error means no upload, no manifest write and no    *)
(* generated file.                                                         *)
(***************************************************************************)
StageOrder ==
    <<"new", "discover_configs", "discover_inputs", "sync", "write_manifest", "codegen">>

SyncWorkDone ==
    \E n \in NameUniverse :
        \/ upload_calls[n] > 0
        \/ decision[n] # "none"
        \/ inputs[n].present /\ inputs[n].hash.some

C8_StageState ==
    /\ IsPrefix(stages, StageOrder)
    /\ SyncWorkDone => InputsDiscovered
    /\ writes <= 1
    /\ writes = 1 <=> Len(stages) >= 5
    /\ writes = 1 =>
          /\ groups = {} /\ group = {}
          /\ \A n \in NameUniverse : UnpackableImage(n) => Synced(n)
    /\ disk_manifest # start_manifest => writes = 1
    /\ generated # NoOutputs => writes = 1 /\ Len(stages) = 6
    /\ pc = "done" => writes = 1 /\ stages = StageOrder
    /\ (error.kind # "none" /\ Len(stages) < 3) =>
          /\ ~SyncWorkDone
          /\ writes = 0
          /\ disk_manifest = start_manifest
          /\ generated = NoOutputs

C8_AfterFailure ==
    error.kind # "none" =>
        UNCHANGED <<stages, inputs, upload_calls, writes, disk_manifest, generated>>

C8_StageOrder == [](C8_StageState) /\ [][C8_AfterFailure]_vars

\* a run has finished having uploaded, written the manifest and generated code
C8_Witness ==
    /\ pc = "done"
    /\ Uploaded # {}
    /\ disk_manifest # start_manifest
    /\ generated # NoOutputs

(***************************************************************************)
(* C9: when an upload call fails the run ends there: the inputs not yet    *)
(* visited stay unhashed and are never uploaded, the manifest file stays   *)
(* the one found at session start, also for the inputs uploaded earlier in *)
(* the run, and no code is generated.                                      *)
(***************************************************************************)
C9_FailedState ==
    error.kind = "Upload" =>
        /\ writes = 0
        /\ disk_manifest = start_manifest
        /\ generated = NoOutputs
        /\ stages = SubSeq(StageOrder, 1, 3)
        /\ \A n \in group :
              /\ ~inputs[n].hash.some
              /\ upload_calls[n] = 0
              /\ decision[n] = "none"

C9_AfterFailure ==
    error.kind = "Upload" =>
        UNCHANGED <<inputs, upload_calls, decision, writes, disk_manifest,
                    generated, stages>>

C9_UploadFailureAborts == [](C9_FailedState) /\ [][C9_AfterFailure]_vars

\* an upload failed after another input, unknown to the manifest, had been
\* uploaded, and while an image was still waiting in the group
C9_Witness ==
    /\ error.kind = "Upload"
    /\ \E k \in NameUniverse : upload_ids[k] # 0 /\ ~start_manifest.inputs[k].present
    /\ \E n \in group : IsImageAsset(inputs[n].path)

(***************************************************************************)
(* C10: the manifest write_manifest writes has an entry for exactly the    *)
(* asset names discovered in this run, and each entry holds the input's    *)
(* final hash and id, the input's current InputConfig and no slice.        *)
(***************************************************************************)
C10_WrittenManifest ==
    ManifestWritten =>
        /\ disk_manifest.exists
        /\ \A n \in NameUniverse :
              IF inputs[n].present
              THEN disk_manifest.inputs[n] =
                      InputManifest(inputs[n].hash, inputs[n].id, None,
                                    InputConfigOf(configs, inputs[n]))
              ELSE ~disk_manifest.inputs[n].present

\* a manifest was written that drops a name of the original manifest and
\* replaces the config snapshot of another
C10_Witness ==
    /\ ManifestWritten
    /\ \E n, k \in NameUniverse :
          /\ original_manifest[n].present /\ ~disk_manifest.inputs[n].present
          /\ original_manifest[k].present /\ disk_manifest.inputs[k].present
          /\ original_manifest[k].config # disk_manifest.inputs[k].config

(***************************************************************************)
(* The search graph of discover_configs: what a search path holds and      *)
(* which paths are enqueued when it is taken from the queue.               *)
(***************************************************************************)
SearchPaths ==
    Dirs \cup {MissingDir} \cup FilePaths \cup {ConfigFile(d) : d \in Dirs}

Range(seq) == {seq[k] : k \in 1..Len(seq)}

\* in world w: the folder of the config a search path yields, if it yields one
ResolvesIn(w, p) ==
    IF \E d \in Dirs : p = ConfigFile(d) /\ Worlds[w][d].present
    THEN {CHOOSE d \in Dirs : p = ConfigFile(d)}
    ELSE IF p \in Dirs /\ p \notin UnreadableIn(w) /\ Worlds[w][p].present THEN {p}
    ELSE {}

\* in world w: the paths enqueued when p is processed
SuccessorsIn(w, p) ==
    IF ResolvesIn(w, p) # {}
    THEN UNION {Range(Worlds[w][d].includes) : d \in ResolvesIn(w, p)}
    ELSE IF p \in Dirs /\ p \notin UnreadableIn(w) THEN SubDirs(p)
    ELSE {}

\* in world w: the search paths n hops away from the paths of S
RECURSIVE HopsIn(_, _, _)
HopsIn(w, S, n) ==
    IF n = 0 THEN S ELSE UNION {SuccessorsIn(w, p) : p \in HopsIn(w, S, n - 1)}

MaxHops == Cardinality(SearchPaths)

RootIncludesIn(w) == Range(Worlds[w][RootDir].includes)

\* the folders of the configs the search from the root's includes comes to
ReachableIn(w) ==
    UNION {ResolvesIn(w, p) : p \in UNION {HopsIn(w, RootIncludesIn(w), n) : n \in 0..MaxHops}}

\* the number of hops after which the search first comes to the config of d
LevelIn(w, d) ==
    CHOOSE n \in 0..MaxHops :
        /\ \E p \in HopsIn(w, RootIncludesIn(w), n) : d \in ResolvesIn(w, p)
        /\ \A m \in 0..(n - 1) :
              \A p \in HopsIn(w, RootIncludesIn(w), m) : d \notin ResolvesIn(w, p)

\* an include of the config of d leads back to that config
LeadsBackIn(w, d) ==
    \E n \in 0..MaxHops :
        \E p \in HopsIn(w, Range(Worlds[w][d].includes), n) : d \in ResolvesIn(w, p)

\* from search path p the search comes to a config of a cycle
LeadsToCycleIn(w, p) ==
    \E n \in 0..MaxHops :
        \E q \in HopsIn(w, {p}, n) : \E d \in ResolvesIn(w, q) : LeadsBackIn(w, d)

\* the search graph of every world, worked out once
SearchGraphs ==
    [w \in 1..Len(Worlds) |->
        [reachable |-> ReachableIn(w),
         level |-> [d \in ReachableIn(w) |-> LevelIn(w, d)],
         cycle |-> \E d \in ReachableIn(w) \cup {RootDir} : LeadsBackIn(w, d),
         to_cycle |-> {p \in SearchPaths : LeadsToCycleIn(w, p)}]]

Resolves(p) == ResolvesIn(world, p)

ReachableConfigs == SearchGraphs[world].reachable

ConfigLevel(d) == SearchGraphs[world].level[d]

HasCycle == SearchGraphs[world].cycle

LeadsToCycle(p) == p \in SearchGraphs[world].to_cycle

SessionExists == stages # <<>>

ConfigsDiscovered == Len(stages) >= 2

(***************************************************************************)
(* C11: discover_configs takes the search path at the front of the queue.  *)
(* A file is parsed as a config, which is appended to configs while its    *)
(* includes go to the back of the queue; a folder that holds a config has  *)
(* that config appended and its includes, and none of its subfolders,      *)
(* enqueued; a folder without a config has exactly its immediate           *)
(* subfolders enqueued, in some order, and appends nothing.  Once          *)
(* discover_configs has returned, configs is the root config followed by   *)
(* the configs the search comes to and no other, in the order of the       *)
(* number of hops that first lead to each.                                 *)
(***************************************************************************)
C11_Step ==
    (pc = "discover_configs" /\ to_search # <<>> /\ to_search' # to_search
        /\ error' = NoError) =>
        LET search_path == Head(to_search)
            rest == Tail(to_search)
        IN  IF Resolves(search_path) # {}
            THEN LET config == CfgAt(CHOOSE d \in Resolves(search_path) : TRUE)
                 IN  /\ configs' = configs \o <<config>>
                     /\ to_search' = rest \o config.includes
            ELSE /\ configs' = configs
                 /\ IsPrefix(rest, to_search')
                 /\ Len(to_search') = Len(rest) + Cardinality(SubDirs(search_path))
                 /\ Range(StripPrefix(rest, to_search')) = SubDirs(search_path)

C11_Result ==
    (ConfigsDiscovered /\ ~HasCycle) =>
        /\ configs[1] = CfgAt(RootDir)
        /\ \A d \in ReachableConfigs : \E k \in 2..Len(configs) : configs[k] = CfgAt(d)
        /\ \A k \in 2..Len(configs) :
              /\ configs[k].folder \in ReachableConfigs
              /\ configs[k] = CfgAt(configs[k].folder)
        /\ \A j, k \in 2..Len(configs) :
              (j < k /\ \A i \in 2..(k - 1) : configs[i] # configs[k]) =>
                  ConfigLevel(configs[j].folder) <= ConfigLevel(configs[k].folder)

C11_BreadthFirst == [](C11_Result) /\ [][C11_Step]_vars

\* the search came to the config named by a file before the one in a
\* subfolder of a folder that was included earlier and had to be searched
C11_Witness ==
    /\ ConfigsDiscovered
    /\ configs = <<CfgAt(RootDir), CfgAt(SubDir), CfgAt(InnerDir)>>
    /\ CfgAt(RootDir).includes = <<LibDir, ConfigFile(SubDir)>>

(***************************************************************************)
(* C12, as claimed: when an include of a config the search comes to leads  *)
(* back to that config, discover_configs never terminates: a session that  *)
(* was constructed stays in discover_configs for ever.                     *)
(***************************************************************************)
C12_NeverTerminates ==
    (HasCycle /\ SessionExists) => pc \in {"discover_configs_begin", "discover_configs"}

(***************************************************************************)
(* C12, amended: when an include of a config the search comes to leads     *)
(* back to that config, discover_configs never returns Ok: as long as it   *)
(* runs the queue holds a path that leads to a config of the cycle, so the *)
(* loop does not end and configs keeps growing; it ends only when another  *)
(* search path taken from the queue fails, with the error of that path.    *)
(***************************************************************************)
C12_NoReturnOnCycle ==
    (HasCycle /\ SessionExists) =>
        /\ ~ConfigsDiscovered
        /\ pc \in {"discover_configs_begin", "discover_configs", "failed"}
        /\ pc = "failed" => error.kind \in {"Io", "Config"}
        /\ pc = "discover_configs" => \E k \in 1..Len(to_search) : LeadsToCycle(to_search[k])

\* the search has been round the cycle once: the same config is held twice,
\* and the queue is not empty
C12_Witness ==
    /\ HasCycle
    /\ pc = "discover_configs"
    /\ to_search # <<>>
    /\ Len(configs) = MaxConfigs
    /\ \E j, k \in 2..Len(configs) : j < k /\ configs[j] = configs[k]

(***************************************************************************)
(* C13: in every state of a session configs is not empty and holds the     *)
(* root config at index 0; every input's config_index (c, i) has           *)
(* c < configs.len() and i < configs[c].inputs.len(); and a step of the    *)
(* session leaves the configs it held where they were, appending at most.  *)
(***************************************************************************)
C13_State ==
    SessionExists =>
        /\ Len(configs) >= 1
        /\ configs[1] = CfgAt(RootDir)
        /\ \A n \in Discovered(inputs) :
              LET c == inputs[n].config_index[1]
                  i == inputs[n].config_index[2]
              IN  /\ 0 <= c /\ c < Len(configs)
                  /\ 0 <= i /\ i < Len(configs[c + 1].inputs)

C13_Step == (SessionExists /\ stages' # <<>>) => IsPrefix(configs, configs')

C13_ConfigsAppendOnly == [](C13_State) /\ [][C13_Step]_vars

\* an input was registered under the first pattern of an included config
C13_Witness ==
    /\ Len(configs) >= 2
    /\ \E n \in Discovered(inputs) : inputs[n].config_index = <<1, 0>>

(***************************************************************************)
(* C14: a filesystem failure ends the run with an error: a search path of  *)
(* config discovery that cannot be read, an input whose contents cannot be *)
(* read, and an entry that WalkDir cannot traverse while a glob is         *)
(* expanded; in particular discover_inputs does not return Ok once the     *)
(* walk of one of its globs has come across an entry it could not read.    *)
(***************************************************************************)
\* the globs discover_inputs has walked so far
WalkedPatterns ==
    IF pc = "discover_inputs" THEN 1..cursor
    ELSE IF InputsDiscovered THEN 1..Len(Patterns)
    ELSE {}

\* the walk of one of these globs yielded an Err
TraversalError ==
    \E k \in WalkedPatterns :
        LET config == configs[Patterns[k][1] + 1]
            input_config == config.inputs[Patterns[k][2] + 1]
        IN  WalkErrors(config.folder \o input_config.glob.prefix) # {}

C14_FilesystemErrorsAbort ==
    /\ error.kind = "Io" => pc = "failed"
    /\ TraversalError => ~InputsDiscovered

(***************************************************************************)
(* C15: with the Roblox target and no credential the run fails with NoAuth *)
(* as soon as both discoveries have returned, before any sync work: no     *)
(* input is hashed, no upload call is made, no manifest is written and no  *)
(* code is generated.  With the content folder target the run never fails  *)
(* with NoAuth, with or without a credential.                              *)
(***************************************************************************)
C15_NoAuth ==
    /\ (target = "Roblox" /\ ~auth) =>
          /\ pc \notin {"sync", "write_manifest", "codegen", "done"}
          /\ ~SyncWorkDone
          /\ writes = 0
          /\ disk_manifest = start_manifest
          /\ generated = NoOutputs
          /\ (InputsDiscovered /\ pc # "select_strategy") =>
                pc = "failed" /\ error = Err("NoAuth", <<>>)
    /\ error.kind = "NoAuth" => target = "Roblox" /\ ~auth /\ InputsDiscovered
    /\ target = "ContentFolder" => error.kind # "NoAuth"

\* a run for the Roblox target failed with NoAuth although it had found an
\* image to upload
C15_Witness ==
    /\ error.kind = "NoAuth"
    /\ pc = "failed"
    /\ \E n \in Discovered(inputs) : UnpackableImage(n) /\ ~original_manifest[n].present

(***************************************************************************)
(* C16: an input of a packable config, and an input of a non-packable      *)
(* config whose extension is neither png nor jpg, is never passed to the   *)
(* upload strategy and keeps hash and id unset; so once sync has returned  *)
(* Ok an input has its hash set if and only if it has its id set, if and   *)
(* only if it is a non-packable input with the extension png or jpg.       *)
(***************************************************************************)
NonPackableImage(n) ==
    /\ ~InputConfigOf(configs, inputs[n]).packable
    /\ Extension(inputs[n].path) \in {"png", "jpg"}

C16_HashIffIdIffImage ==
    \A n \in Discovered(inputs) :
        /\ ~NonPackableImage(n) =>
              /\ upload_calls[n] = 0
              /\ decision[n] \in {"none", "skip"}
              /\ inputs[n].hash = None
              /\ inputs[n].id = None
        /\ SyncReturned =>
              /\ inputs[n].hash.some <=> inputs[n].id.some
              /\ inputs[n].id.some <=> NonPackableImage(n)

\* sync has returned Ok with an image synced, a packable image left alone
\* and a file that is no image left alone
C16_Witness ==
    /\ SyncReturned
    /\ \E n, k, j \in Discovered(inputs) :
          /\ NonPackableImage(n) /\ inputs[n].id.some
          /\ InputConfigOf(configs, inputs[k]).packable
          /\ IsImageAsset(inputs[k].path) /\ inputs[k].id = None
          /\ ~InputConfigOf(configs, inputs[j]).packable
          /\ decision[j] = "skip" /\ inputs[j].hash = None

(***************************************************************************)
(* Vocabulary of the properties of perform_codegen.                        *)
(***************************************************************************)
\* the path of names an input is a leaf under
KeyPath(input) ==
    LET segments == RelativePath(input)
    IN  [i \in 1..Len(segments) |->
            IF i = Len(segments) THEN LeafName(segments[i]) ELSE FolderName(segments[i])]

\* the expression found in a rendered table by following a path of names
RECURSIVE Lookup(_, _)
Lookup(expression, names) ==
    IF names = <<>> THEN Some(expression)
    ELSE IF expression.type # "Table" THEN None
    ELSE LET hits == {i \in 1..Len(expression.value) : expression.value[i][1] = names[1]}
         IN  IF hits = {} THEN None
             ELSE Lookup(expression.value[CHOOSE i \in hits : TRUE][2], Tail(names))

\* the input has a codegen kind and a resolved identifier
Renders(input) == input.codegen # "None" /\ input.id.some

\* what the template of the input's kind renders
Rendered(input) ==
    IF input.codegen = "AssetUrl" THEN ExpressionString(<<"rbxassetid://", input.id.val>>)
    ELSE ExpressionTable(<<<<Seg("Image", ""),
                             ExpressionString(<<"rbxassetid://", input.id.val>>)>>>>)

\* no two inputs are leaves under the same names, and no input is a leaf
\* where another one has a folder
ConflictFree(ins) ==
    \A j, k \in 1..Len(ins) :
        j # k => ~IsPrefix(KeyPath(ins[j]), KeyPath(ins[k]))

GroupedDone == cg_pc = "done" /\ output_path.some

(***************************************************************************)
(* C18: the file grouped codegen writes returns a table that mirrors the   *)
(* tree of the inputs' relative paths.  A folder of the tree is rendered   *)
(* as a table, also when none of its children is rendered; the keys of     *)
(* that table are the names of its folders and of its leaves that have a   *)
(* codegen kind and an identifier, in ascending order; such a leaf is      *)
(* rendered by the template of its kind, any other leaf is left out.  When *)
(* no two inputs are in each other's way every input with a codegen kind   *)
(* and an identifier is found in the table under its relative path.        *)
(***************************************************************************)
C18_GroupedTree ==
    GroupedDone =>
        LET file == cg_files[output_path.val]
            root == file.ast.value
        IN  /\ file.present
            /\ file.ast.statement = "Return"
            /\ \A at \in DOMAIN root_folder :
                  LET found == Lookup(root, at)
                  IN  IF root_folder[at].kind = "Folder"
                      THEN /\ found.some
                           /\ found.val.type = "Table"
                           /\ LET keys == [i \in 1..Len(found.val.value) |->
                                              found.val.value[i][1]]
                              IN  /\ Range(keys) =
                                        {k[Len(k)] : k \in
                                            {c \in Children(root_folder, at) :
                                                \/ root_folder[c].kind = "Folder"
                                                \/ Renders(root_folder[c].input)}}
                                  /\ \A i, j \in 1..Len(keys) :
                                        i < j => keys[i] # keys[j] /\ NameLeq(keys[i], keys[j])
                      ELSE IF Renders(root_folder[at].input)
                           THEN found = Some(Rendered(root_folder[at].input))
                           ELSE found = None
            /\ ConflictFree(cg_inputs) =>
                  \A k \in 1..Len(cg_inputs) :
                      Lookup(root, KeyPath(cg_inputs[k])) =
                          IF Renders(cg_inputs[k]) THEN Some(Rendered(cg_inputs[k])) ELSE None

\* a/b/x.png and a/c/z.png with identifiers, a/b/y.png without one: the
\* file returns {a = {b = {x = ..}, c = {z = ..}}}
C18_Witness ==
    /\ GroupedDone
    /\ Len(cg_inputs) = 3
    /\ cg_inputs[1] = CodegenInput(RelACZ, "AssetUrl", Some(6), None)
    /\ cg_inputs[2] = CodegenInput(RelABY, "AssetUrl", None, None)
    /\ cg_inputs[3] = CodegenInput(RelABX, "AssetUrl", Some(3), None)
    /\ cg_files[OutputFile].ast.value =
          ExpressionTable(<<
              <<Seg("a", ""), ExpressionTable(<<
                  <<Seg("b", ""), ExpressionTable(<<
                      <<Seg("x", ""), ExpressionString(<<"rbxassetid://", 3>>)>> >>)>>,
                  <<Seg("c", ""), ExpressionTable(<<
                      <<Seg("z", ""), ExpressionString(<<"rbxassetid://", 6>>)>> >>)>> >>)>> >>)

\* the tree after the loop `for input in inputs` over a whole slice
RECURSIVE InsertAll(_, _)
InsertAll(tree, ins) ==
    IF ins = <<>> THEN tree
    ELSE InsertAll(TreeInsert(tree, Head(ins)).tree, Tail(ins))

\* the files after codegen_individual over a whole slice
RECURSIVE WriteAll(_, _)
WriteAll(written, ins) ==
    IF ins = <<>> THEN written
    ELSE LET expression == IndividualExpression(Head(ins))
             path == WithExtension(Head(ins).path, "lua")
         IN  WriteAll(IF expression.some
                      THEN [written EXCEPT ![path] = LuaFile(expression.val)]
                      ELSE written,
                      Tail(ins))

\* the files perform_codegen leaves for a slice of inputs
FilesOf(output, ins) ==
    IF output.some
    THEN [NoCodegenFiles EXCEPT
             ![output.val] = LuaFile(BuildItem(InsertAll(EmptyFolder, ins), <<>>).val)]
    ELSE WriteAll(NoCodegenFiles, ins)

\* the same inputs in every order
Orders(ins) ==
    {[i \in 1..Len(ins) |-> ins[order[i]]] : order \in Permutations(1..Len(ins))}

(***************************************************************************)
(* C17: the generated output does not depend on the order in which the     *)
(* inputs are passed to codegen: every order of the same inputs leaves the *)
(* same files.                                                             *)
(***************************************************************************)
C17_OrderIndependent ==
    cg_pc = "done" =>
        /\ cg_files = FilesOf(output_path, cg_inputs)
        /\ \A ins \in Orders(cg_inputs) : FilesOf(output_path, ins) = cg_files

\* the input's path enters as a folder what an earlier input bound as a leaf
Blocked(tree, input) ==
    LET key == KeyPath(input)
    IN  \E n \in 1..(Len(key) - 1) :
            /\ SubSeq(key, 1, n) \in DOMAIN tree
            /\ tree[SubSeq(key, 1, n)].kind = "Input"

(***************************************************************************)
(* C19: when the path of an input of codegen_grouped goes through a name   *)
(* that an earlier input bound as a leaf, the path is logged as an error,  *)
(* the tree stays exactly as it was and the loop goes on to the next       *)
(* input; an input whose path is not blocked, also one that comes after a  *)
(* blocked one, becomes the leaf under its names and nothing is logged.    *)
(***************************************************************************)
C19_Step ==
    (cg_pc = "codegen_grouped" /\ cg_pos' = cg_pos + 1) =>
        LET input == cg_inputs[cg_pos + 1]
        IN  /\ cg_pc' = "codegen_grouped"
            /\ IF Blocked(root_folder, input)
               THEN /\ root_folder' = root_folder
                    /\ cg_log' = Append(cg_log, input.path)
               ELSE /\ KeyPath(input) \in DOMAIN root_folder'
                    /\ root_folder'[KeyPath(input)] = ItemInput(input)
                    /\ cg_log' = cg_log

C19_LeafConflict == [][C19_Step]_vars

\* a/b.png, then a/b/x.png which is blocked by it, then a/c/z.png: the file
\* is written, the second path is logged, the third input is in the tree
C19_Witness ==
    /\ GroupedDone
    /\ cg_files[output_path.val].present
    /\ Len(cg_inputs) = 3
    /\ cg_inputs[1].path = BasePath \o RelAB
    /\ cg_inputs[2].path = BasePath \o RelABX
    /\ cg_inputs[3].path = BasePath \o RelACZ
    /\ cg_log = <<cg_inputs[2].path>>
    /\ KeyPath(cg_inputs[2]) \notin DOMAIN root_folder
    /\ root_folder[KeyPath(cg_inputs[1])] = ItemInput(cg_inputs[1])
    /\ root_folder[KeyPath(cg_inputs[3])] = ItemInput(cg_inputs[3])

(***************************************************************************)
(* C20: after the codegen of a run an input has its generated file if and  *)
(* only if the codegen kind of its input config is not None and it has an  *)
(* identifier, for the kind AssetUrl and for the kind UrlAndSlice alike.   *)
(***************************************************************************)
C20_IndividualOutput ==
    pc = "done" =>
        \A n \in Discovered(inputs) :
            generated[WithExtension(inputs[n].path, "lua")].present <=>
                /\ InputConfigOf(configs, inputs[n]).codegen # "None"
                /\ inputs[n].id.some

(***************************************************************************)
(* C21: when the tree of codegen_grouped is complete, every input whose    *)
(* path was not logged as blocked is the leaf under the names of its       *)
(* relative path, the extension of the last one stripped: no later input   *)
(* has taken its place or removed it.                                      *)
(***************************************************************************)
C21_EveryInputBound ==
    GroupedDone =>
        \A k \in 1..Len(cg_inputs) :
            (\A i \in 1..Len(cg_log) : cg_log[i] # cg_inputs[k].path) =>
                /\ KeyPath(cg_inputs[k]) \in DOMAIN root_folder
                /\ root_folder[KeyPath(cg_inputs[k])] = ItemInput(cg_inputs[k])

(***************************************************************************)
(* C22: from the moment SyncSession::new has loaded it until the run ends, *)
(* the original manifest is what was read from disk at session start: no  *)
(* step of config discovery, input discovery, sync, manifest write or      *)
(* codegen changes it, not even the write of the new manifest to the same  *)
(* file; the results of sync go to the inputs and to the manifest written. *)
(***************************************************************************)
C22_State ==
    SessionExists =>
        /\ original_manifest = ReadManifest(start_manifest).inputs
        /\ ManifestWritten =>
              disk_manifest = ManifestFile(BuildManifest(configs, original_manifest, inputs))

C22_Step == (pc # "new" /\ run' = run) => original_manifest' = original_manifest

C22_OriginalManifestReadOnly == [](C22_State) /\ [][C22_Step]_vars

\* a run that finished after it uploaded an input the original manifest had
\* an entry for: the manifest on disk has the new id, the original the old one
C22_Witness ==
    /\ pc = "done"
    /\ \E n \in Discovered(inputs) :
          /\ original_manifest[n].present
          /\ original_manifest[n].id.some
          /\ decision[n] = "upload"
          /\ disk_manifest.inputs[n].id = inputs[n].id
          /\ disk_manifest.inputs[n].id # original_manifest[n].id

\* in world w: how many search paths, hop by hop from the root's includes,
\* yield the config of folder d
VisitsIn(w, d) ==
    Cardinality({v \in (0..MaxHops) \X SearchPaths :
                    /\ v[2] \in HopsIn(w, RootIncludesIn(w), v[1])
                    /\ d \in ResolvesIn(w, v[2])})

SearchVisits == [w \in 1..Len(Worlds) |-> [d \in ReachableIn(w) |-> VisitsIn(w, d)]]

\* how often configs holds the config after the root config
Occurrences(cfgs, config) == Cardinality({k \in 2..Len(cfgs) : cfgs[k] = config})

\* some glob of the config matches a file
Matched(config) ==
    \E i \in 1..Len(config.inputs) : FilteredPaths(config, config.inputs[i]) # {}

\* configs holds a config twice, and that config has a matched input
RepeatedMatched ==
    \E j, k \in 1..Len(configs) : j < k /\ configs[j] = configs[k] /\ Matched(configs[j])

(***************************************************************************)
(* C24: config discovery does not deduplicate.  A search path that yields  *)
(* a config appends it, whether configs holds that config already or not,  *)
(* so that after a discovery that returned a config is held once for every *)
(* search path that led to it.  When configs holds a config twice and that *)
(* config has a matched input, input discovery does not return Ok: it      *)
(* fails with OverlappingGlobs.                                            *)
(***************************************************************************)
C24_State ==
    /\ (ConfigsDiscovered /\ ~HasCycle) =>
          \A d \in ReachableConfigs :
              Occurrences(configs, CfgAt(d)) = SearchVisits[world][d]
    /\ (SessionExists /\ RepeatedMatched) =>
          /\ ~InputsDiscovered
          /\ (pc = "failed" /\ ConfigsDiscovered) => error.kind = "OverlappingGlobs"

C24_Step ==
    (/\ pc = "discover_configs" /\ pc' = "discover_configs"
     /\ to_search # <<>>
     /\ Resolves(Head(to_search)) # {}
     /\ <<configs, to_search>>' # <<configs, to_search>>) =>
        configs' = Append(configs, CfgAt(CHOOSE d \in Resolves(Head(to_search)) : TRUE))

DiscoveringConfigs == pc \in {"discover_configs_begin", "discover_configs"}

(***************************************************************************)
(* C23: when no include of a config the search comes to leads back to that *)
(* config, discover_configs returns; and when it has returned Ok the queue *)
(* of pending search paths is empty and configs holds every config the     *)
(* search from the root's includes comes to.                               *)
(***************************************************************************)
C23_Complete ==
    (ConfigsDiscovered /\ ~HasCycle) =>
        /\ to_search = <<>>
        /\ \A d \in ReachableConfigs : \E k \in 2..Len(configs) : configs[k] = CfgAt(d)

C23_Returns == (DiscoveringConfigs /\ ~HasCycle) ~> ~DiscoveringConfigs

C23_TerminatesComplete == [](C23_Complete) /\ C23_Returns

\* discovery has returned Ok after it searched a folder without a config
\* and read a config file: nothing is pending, both configs are held
C23_Witness ==
    /\ pc = "discover_inputs"
    /\ ~HasCycle
    /\ to_search = <<>>
    /\ ReachableConfigs = {SubDir, InnerDir}
    /\ Len(configs) = 3

====
